---- MODULE Spec2Model ----
(***************************************************************************)
(* Model of the dribbling-detection data pipeline:                         *)
(*   src/src/format_to_soccernet.py  batch-run converter (run folder,      *)
(*                                   video{N} slots, data_info.json)       *)
(*   src/src/format_mp4_dir.py       single-clip converter                 *)
(*                                   ({name}-{timestamp} folders)          *)
(*   src/src/remove_unwanted_scenes.py  quality gate (YOLO middle frame)   *)
(*                                                                         *)
(* Strings are sequences of one-character strings, so that lower(),        *)
(* replace(), splitext(), endswith(), str() and the {i:06d} formats are    *)
(* computed, not assumed.  Python floats are IEEE-754 binary64 values      *)
(* (sign, 53-bit mantissa, exponent) with correctly rounded division and   *)
(* multiplication; mantissas are little-endian sequences of 15-bit limbs   *)
(* because TLC's integers are 32 bits wide.                                *)
(***************************************************************************)
EXTENDS Integers, Sequences, FiniteSets, TLC

VARIABLES
    \* ---- create_labels_json called on its own (SpecLabels) ----
    lpc,            \* "call" | "written"
    largs,          \* [video_name, rate, total_frames]: the call's arguments
    lfile,          \* the JSON document written to output_file, or NoFile
    \* ---- format_to_soccernet.main (SpecBatch) ----
    bpc,            \* position of main
    blisting,       \* os.listdir(input_dir), evaluated once at line 136
    bidx,           \* index into blisting of the current file_name
    binput,         \* files present in input_dir
    bprocessed,     \* files present in processed/run_{timestamp}
    bslots,         \* train/: slot directory name -> [clips, frames, labels]
    video_counter,  \* line 133
    video_details,  \* line 131
    blocals,        \* [fps, total_frames] of the current iteration
    data_info,      \* data_info.json of the run folder, or NoFile
    info_writes,    \* how many times data_info.json was written
    events,         \* the steps performed so far, <<index in blisting, step>>
    \* ---- format_mp4_dir.main (SpecSingle) ----
    spc,            \* "loop" | "done" | "aborted"
    slisting,       \* os.listdir(input_dir)
    sidx,           \* index into slisting of the current file_name
    clock,          \* datetime.now(), in whole seconds
    sfolders,       \* output_dir: folder name -> [clips, frames, labels]
    sdone,          \* per converted clip: its file, its folder, the frames
                    \* ffmpeg decoded from it and the seq_length written
    \* ---- remove_unwanted_scenes.main (SpecGate) ----
    gpc,            \* "start" | "loop" | "done"
    gisdir,         \* os.path.isdir(folder_path)
    glisting,       \* os.listdir(folder_path)
    gidx,           \* index into glisting of the current filename
    gdisk,          \* files present in folder_path
    num_processed,  \* line 91
    num_deleted,    \* line 92
    verdict,        \* per index of glisting: what process_video reported
    gseen,          \* per index of glisting: whether the middle frame was read
                    \* and whether the boxes reported for it meet the accept rule
    \* ---- run_detection and check_criteria on one frame (SpecCriteria) ----
    cpc,            \* "call" | "returned"
    cargs,          \* [frame_height, boxes]: the frame and what the model reports
    cout            \* [detections, criteria]: what the two functions return

lvars == <<lpc, largs, lfile>>
bvars == <<bpc, blisting, bidx, binput, bprocessed, bslots, video_counter,
           video_details, blocals, data_info, info_writes, events>>
svars == <<spc, slisting, sidx, clock, sfolders, sdone>>
gvars == <<gpc, gisdir, glisting, gidx, gdisk, num_processed, num_deleted,
           verdict, gseen>>
cvars == <<cpc, cargs, cout>>
vars == <<lvars, bvars, svars, gvars, cvars>>

\* a file is <<>> while it does not exist and <<document>> once written
NoFile == <<>>

(***************************************************************************)
(* Strings                                                                 *)
(***************************************************************************)
UpperChars == <<"A","B","C","D","E","F","G","H","I","J","K","L","M",
                "N","O","P","Q","R","S","T","U","V","W","X","Y","Z">>
LowerChars == <<"a","b","c","d","e","f","g","h","i","j","k","l","m",
                "n","o","p","q","r","s","t","u","v","w","x","y","z">>

\* str.lower(), one character
LowerChar(c) ==
    IF \E i \in 1..26 : UpperChars[i] = c
    THEN LowerChars[CHOOSE i \in 1..26 : UpperChars[i] = c]
    ELSE c

\* str.lower()
Lower(s) == [i \in 1..Len(s) |-> LowerChar(s[i])]

\* str.replace(' ', '-')
ReplaceSpaces(s) == [i \in 1..Len(s) |-> IF s[i] = " " THEN "-" ELSE s[i]]

\* str.endswith(suffix)
EndsWith(s, suf) ==
    /\ Len(s) >= Len(suf)
    /\ SubSeq(s, Len(s) - Len(suf) + 1, Len(s)) = suf

\* os.path.splitext(file_name)[0]: cut at the last dot, unless only dots
\* precede it
SplitExtRoot(s) ==
    LET dots == {i \in 1..Len(s) : s[i] = "."} IN
    IF dots = {} THEN s
    ELSE LET d == CHOOSE i \in dots : \A j \in dots : j <= i IN
         IF \A j \in 1..(d - 1) : s[j] = "." THEN s ELSE SubSeq(s, 1, d - 1)

\* base_name.replace(' ', '-').lower()
Sanitize(file_name) == Lower(ReplaceSpaces(SplitExtRoot(file_name)))

DigitChars == <<"0","1","2","3","4","5","6","7","8","9">>

\* str(n) of an integer n >= 0
RECURSIVE Str(_)
Str(n) == IF n < 10 THEN <<DigitChars[n + 1]>>
          ELSE Str(n \div 10) \o <<DigitChars[(n % 10) + 1]>>

\* f"{n:0{w}d}": str(n) left-padded with zeros to at least w characters
ZeroPad(n, w) ==
    LET s == Str(n) IN
    IF Len(s) >= w THEN s ELSE [i \in 1..(w - Len(s)) |-> "0"] \o s

(***************************************************************************)
(* Python float: IEEE-754 binary64, round to nearest, ties to even.        *)
(* A natural number is a little-endian sequence of 15-bit limbs.           *)
(***************************************************************************)
LimbBits == 15
LimbBase == 32768
MantBits == 53
MantLimbs == 4

LimbOrZero(x, i) == IF i < 1 \/ i > Len(x) THEN 0 ELSE x[i]

\* bit k (0 = least significant) of x
Bit(x, k) ==
    IF k < 0 THEN 0
    ELSE (LimbOrZero(x, (k \div LimbBits) + 1) \div 2^(k % LimbBits)) % 2

\* the limb made of bits pos .. pos+14 of x
LimbAt(x, pos) ==
    LET q == pos \div LimbBits
        r == pos % LimbBits
    IN  (LimbOrZero(x, q + 1) \div 2^r)
        + (LimbOrZero(x, q + 2) % 2^r) * 2^(LimbBits - r)

\* floor(x / 2^lo) mod 2^60 as four limbs; lo < 0 shifts left
Window(x, lo) ==
    <<LimbAt(x, lo), LimbAt(x, lo + LimbBits),
      LimbAt(x, lo + 2 * LimbBits), LimbAt(x, lo + 3 * LimbBits)>>

IsZero(x) == \A i \in 1..Len(x) : x[i] = 0

BitLen(x) ==
    IF IsZero(x) THEN 0
    ELSE LET top == CHOOSE i \in 1..Len(x) :
                        x[i] # 0 /\ \A j \in (i + 1)..Len(x) : x[j] = 0
             w == CHOOSE k \in 1..LimbBits : x[top] < 2^k /\ x[top] >= 2^(k - 1)
         IN  LimbBits * (top - 1) + w

\* a >= b, for numbers of the same number of limbs
Geq(a, b) ==
    \/ a = b
    \/ \E i \in 1..Len(a) : a[i] > b[i] /\ \A j \in (i + 1)..Len(a) : a[j] = b[j]

\* limbs 1..n of a, as a number
LowPart(a, n) == SubSeq(a, 1, n)

\* limb i of a - b, for a >= b: the borrow is whether the lower limbs of a
\* are less than those of b
SubLimb(a, b, i) ==
    (a[i] - b[i]
     - (IF Geq(LowPart(a, i - 1), LowPart(b, i - 1)) THEN 0 ELSE 1)
     + LimbBase) % LimbBase

\* a - b, for four-limb a >= b
Sub(a, b) ==
    <<SubLimb(a, b, 1), SubLimb(a, b, 2), SubLimb(a, b, 3), SubLimb(a, b, 4)>>

\* limb i of a + 1: the carry is whether every lower limb is full
IncLimb(a, i) ==
    (a[i] + (IF \A j \in 1..(i - 1) : a[j] = LimbBase - 1 THEN 1 ELSE 0))
    % LimbBase

\* a + 1, for four-limb a < 2^60 - 1
Inc(a) == <<IncLimb(a, 1), IncLimb(a, 2), IncLimb(a, 3), IncLimb(a, 4)>>

\* 2 a, for four-limb a < 2^59
Double(a) == Window(a, -1)

IntToLimbs(n) ==
    <<n % LimbBase, (n \div LimbBase) % LimbBase,
      n \div (LimbBase * LimbBase), 0>>

\* defined for x < 2^31
LimbsToInt(x) == x[1] + x[2] * LimbBase + x[3] * LimbBase * LimbBase

\* floor(a * 2^n / d) and whether the division left a remainder, by long
\* division, for a < 2 d: rem is the running remainder, q the quotient so far
RECURSIVE DivLoop(_, _, _, _)
DivLoop(rem, d, q, n) ==
    IF n = 0 THEN [q |-> q, inexact |-> ~IsZero(rem)]
    ELSE LET r2 == Double(rem)
             q2 == Double(q)
         IN  \* q2[4] < LimbBase always holds (q < 2^57); testing it makes TLC
             \* evaluate the quotient at every step instead of suspending it
             IF q2[4] < LimbBase /\ Geq(r2, d)
             THEN DivLoop(Sub(r2, d), d, [q2 EXCEPT ![1] = @ + 1], n - 1)
             ELSE DivLoop(r2, d, q2, n - 1)

\* a * b as 2 * MantLimbs limbs: schoolbook multiplication, step k handles
\* limb (k mod 4) of b against limb (k div 4) of a
RECURSIVE MulLoop(_, _, _, _, _)
MulLoop(a, b, k, carry, acc) ==
    IF k = MantLimbs * MantLimbs THEN acc
    ELSE LET i == (k \div MantLimbs) + 1
             j == (k % MantLimbs) + 1
             t == acc[i + j - 1] + a[i] * b[j] + carry
             acc1 == [acc EXCEPT ![i + j - 1] = t % LimbBase]
         IN  IF j = MantLimbs
             THEN MulLoop(a, b, k + 1, 0,
                          [acc1 EXCEPT ![i + MantLimbs] = t \div LimbBase])
             ELSE MulLoop(a, b, k + 1, t \div LimbBase, acc1)

\* x (with `inexact`: plus a fraction in (0,1)) rounded to a 53-bit mantissa
\* m and an exponent e with x ~ m * 2^e, to nearest, ties to even
RoundMant(x, inexact) ==
    LET k == BitLen(x) - MantBits IN
    IF k <= 0 THEN [m |-> Window(x, k), e |-> k]
    ELSE LET kept == Window(x, k)
             half == Bit(x, k - 1) = 1
             sticky == inexact \/ \E i \in 0..(k - 2) : Bit(x, i) = 1
             up == half /\ (sticky \/ Bit(x, k) = 1)
             m == IF up THEN Inc(kept) ELSE kept
         IN  IF BitLen(m) > MantBits
             THEN [m |-> Window(m, 1), e |-> k + 1]
             ELSE [m |-> m, e |-> k]

FloatZero == [neg |-> FALSE, m |-> <<0, 0, 0, 0>>, e |-> 0]

\* float(n) of an integer literal, |n| < 2^31
FloatFromInt(n) ==
    IF n = 0 THEN FloatZero
    ELSE LET r == RoundMant(IntToLimbs(IF n < 0 THEN -n ELSE n), FALSE)
         IN  [neg |-> n < 0, m |-> r.m, e |-> r.e]

\* a / b for b # 0
FloatDiv(a, b) ==
    IF IsZero(a.m) THEN FloatZero
    ELSE LET ge == Geq(a.m, b.m)
             dv == DivLoop(IF ge THEN Sub(a.m, b.m) ELSE a.m, b.m,
                           IF ge THEN <<1, 0, 0, 0>> ELSE <<0, 0, 0, 0>>,
                           MantBits + 2)
             r  == RoundMant(dv.q, dv.inexact)
         IN  [neg |-> a.neg # b.neg, m |-> r.m,
              e |-> a.e - b.e - (MantBits + 2) + r.e]

\* a * b
FloatMul(a, b) ==
    IF IsZero(a.m) \/ IsZero(b.m) THEN FloatZero
    ELSE LET p == MulLoop(a.m, b.m, 0, 0, <<0, 0, 0, 0, 0, 0, 0, 0>>)
             r == RoundMant(p, FALSE)
         IN  [neg |-> a.neg # b.neg, m |-> r.m, e |-> a.e + b.e + r.e]

\* x > 0
FloatPositive(x) == ~x.neg /\ ~IsZero(x.m)

\* int(x) for 0 <= x < 2^31: truncation toward zero
FloatToInt(x) ==
    IF IsZero(x.m) THEN 0 ELSE LimbsToInt(Window(x.m, -x.e))


\* round(x) for 0 <= x < 2^31: to the nearest integer, ties to even
FloatRound(x) ==
    IF IsZero(x.m) THEN 0
    ELSE LET k == -x.e
             ip == LimbsToInt(Window(x.m, k))
             half == Bit(x.m, k - 1) = 1
             sticky == \E i \in 0..(k - 2) : Bit(x.m, i) = 1
         IN  IF half /\ (sticky \/ ip % 2 = 1) THEN ip + 1 ELSE ip

(***************************************************************************)
(* get_video_fps: the rate line printed by ffprobe, parsed                 *)
(***************************************************************************)
\* raw_rate is "num/den" (slash) or "num"
RaisesZeroDivision(raw) == raw.slash /\ raw.den = 0

\* lines 27-31: float(numerator) / float(denominator), or float(raw_rate)
ParseRate(raw) ==
    IF raw.slash THEN FloatDiv(FloatFromInt(raw.num), FloatFromInt(raw.den))
    ELSE FloatFromInt(raw.num)

(***************************************************************************)
(* create_labels_json                                                      *)
(***************************************************************************)
\* line 65 (format_mp4_dir.py: line 69)
DurationMs(total_frames, frame_rate) ==
    IF FloatPositive(frame_rate)
    THEN FloatToInt(FloatMul(FloatDiv(FloatFromInt(total_frames), frame_rate),
                             FloatFromInt(1000)))
    ELSE 0

JpgExt == <<".", "j", "p", "g">>

\* one entry of images_list, lines 80-88
ImageEntryZeroBased(i) ==
    [is_labeled |-> FALSE,
     image_id   |-> ZeroPad(i - 1, 9),
     file_name  |-> ZeroPad(i - 1, 6) \o JpgExt,
     height     |-> 1080,
     width      |-> 1920]

ImageEntry(i) ==
    [is_labeled |-> FALSE,
     image_id   |-> ZeroPad(i, 9),
     file_name  |-> ZeroPad(i, 6) \o JpgExt,
     height     |-> 1080,
     width      |-> 1920]

\* the document json.dump writes, lines 65-102
LabelsJson(video_name, frame_rate, total_frames) ==
    [info |-> [version    |-> "1.3",
               name       |-> video_name,
               im_dir     |-> "img1",
               frame_rate |-> frame_rate,
               seq_length |-> total_frames,
               im_ext     |-> JpgExt,
               clip_start |-> <<"0">>,
               clip_stop  |-> Str(DurationMs(total_frames, frame_rate))],
     images      |-> [i \in 1..total_frames |-> ImageEntry(i)],
     annotations |-> <<>>,
     categories  |-> <<>>]

(***************************************************************************)
(* Arguments of create_labels_json when it is run on its own               *)
(***************************************************************************)
MaxFrames == 24

Rate(n, d) == [slash |-> TRUE, num |-> n, den |-> d]

\* frame rates as ffprobe prints them, and a zero and a negative rate
LabelRates == {Rate(25, 1), Rate(30, 1), Rate(30000, 1001), Rate(24000, 1001),
               Rate(0, 1), Rate(-25, 1), [slash |-> FALSE, num |-> 3, den |-> 1]}

LabelNames == {<<"c", "l", "i", "p">>}

LIdle == lpc = "idle" /\ largs = NoFile /\ lfile = NoFile


BIdle ==
    /\ bpc = "idle" /\ blisting = <<>> /\ bidx = 0
    /\ binput = {} /\ bprocessed = {} /\ bslots = <<>>
    /\ video_counter = 0 /\ video_details = <<>> /\ blocals = NoFile
    /\ data_info = NoFile /\ info_writes = 0 /\ events = <<>>

SIdle ==
    /\ spc = "idle" /\ slisting = <<>> /\ sidx = 0 /\ clock = 0
    /\ sfolders = <<>> /\ sdone = <<>>

GIdle ==
    /\ gpc = "idle" /\ gisdir = FALSE /\ glisting = <<>> /\ gidx = 0
    /\ gdisk = {} /\ num_processed = 0 /\ num_deleted = 0
    /\ verdict = <<>> /\ gseen = <<>>

CIdle == cpc = "idle" /\ cargs = NoFile /\ cout = NoFile

(***************************************************************************)
(* Directory listings                                                      *)
(***************************************************************************)
Range(f) == {f[i] : i \in DOMAIN f}

\* every order in which os.listdir may yield the files of a directory that
\* holds some of `names`
Listings(names) ==
    {l \in UNION {[1..n -> names] : n \in 0..Cardinality(names)} :
        \A i, j \in DOMAIN l : i # j => l[i] # l[j]}

DotMp4 == <<".", "m", "p", "4">>
DotWebm == <<".", "w", "e", "b", "m">>

\* file_name.lower().endswith(('.mp4', '.webm'))
IsConverterVideo(file_name) ==
    \/ EndsWith(Lower(file_name), DotMp4)
    \/ EndsWith(Lower(file_name), DotWebm)

(***************************************************************************)
(* SpecBatch: format_to_soccernet.main                                     *)
(***************************************************************************)
MaxClipFrames == 1

BatchNames == {<<"a", ".", "m", "p", "4">>,
               <<"B", " ", "b", ".", "W", "E", "B", "M">>,
               <<"a", ".", "w", "e", "b", "m">>,
               <<"n", ".", "t", "x", "t">>}

\* how a run of ffprobe may end: a non-zero exit code, or exit code 0 and
\* a rate line, which may be "0/0"
ProbeOutcomes ==
    {[exit_code |-> 1, raw |-> Rate(0, 0)]}
    \cup {[exit_code |-> 0, raw |-> r] :
            r \in {Rate(24000, 1001), Rate(0, 0)}}

\* get_video_fps raises: CalledProcessError (check=True, line 24) or
\* ZeroDivisionError (line 29)
ProbeRaises(out) == out.exit_code # 0 \/ RaisesZeroDivision(out.raw)

\* f"video{video_counter}"
SlotName(counter) == <<"v", "i", "d", "e", "o">> \o Str(counter)

EmptyDir == [clips |-> {}, frames |-> {}, labels |-> NoFile]

\* os.makedirs(path, exist_ok=True) in a directory tree `dirs`
MakeDirs(dirs, name) ==
    IF name \in DOMAIN dirs THEN dirs ELSE dirs @@ (name :> EmptyDir)

\* ffmpeg writing frames 000001.jpg .. n.jpg of `clip` into the img1 of
\* `name`; images already there under other numbers stay, those under the
\* same numbers are overwritten
WriteFrames(dirs, name, clip, n) ==
    [dirs EXCEPT ![name].clips = @ \cup {clip},
                 ![name].frames = @ \cup (1..n)]

\* get_frame_count: len(glob('*.jpg'))
FrameCount(dirs, name) == Cardinality(dirs[name].frames)

BInit ==
    /\ bpc = "scan"
    /\ blisting \in Listings(BatchNames)
    /\ bidx = 1
    /\ binput = Range(blisting)
    /\ bprocessed = {}
    /\ bslots = <<>>
    /\ video_counter = 1
    /\ video_details = <<>>
    /\ blocals = NoFile
    /\ data_info = NoFile
    /\ info_writes = 0
    /\ events = <<>>
    /\ LIdle /\ SIdle /\ GIdle /\ CIdle

BOther == <<lvars, svars, gvars, cvars>>

\* lines 136-137: a file that is no .mp4/.webm is passed over
BSkipFile ==
    /\ bpc = "scan" /\ bidx <= Len(blisting)
    /\ ~IsConverterVideo(blisting[bidx])
    /\ bidx' = bidx + 1
    /\ UNCHANGED <<bpc, blisting, binput, bprocessed, bslots, video_counter,
                   video_details, blocals, data_info, info_writes, events, BOther>>

\* lines 138-150: the slot video{video_counter} and its img1 are created
BEnterClip ==
    /\ bpc = "scan" /\ bidx <= Len(blisting)
    /\ IsConverterVideo(blisting[bidx])
    /\ bslots' = MakeDirs(bslots, SlotName(video_counter))
    /\ blocals' = NoFile
    /\ bpc' = "probe"
    /\ UNCHANGED <<blisting, bidx, binput, bprocessed, video_counter,
                   video_details, data_info, info_writes, events, BOther>>

\* line 153: get_video_fps returns
BProbeOk ==
    /\ bpc = "probe"
    /\ \E out \in ProbeOutcomes :
        /\ ~ProbeRaises(out)
        /\ blocals' = [fps |-> ParseRate(out.raw), total_frames |-> 0]
    /\ events' = Append(events, <<bidx, "probe">>)
    /\ bpc' = "extract"
    /\ UNCHANGED <<blisting, bidx, binput, bprocessed, bslots, video_counter,
                   video_details, data_info, info_writes, BOther>>

\* line 153: get_video_fps raises, and nothing in main catches it
BProbeFail ==
    /\ bpc = "probe"
    /\ \E out \in ProbeOutcomes : ProbeRaises(out)
    /\ events' = Append(events, <<bidx, "probe_failed">>)
    /\ bpc' = "aborted"
    /\ UNCHANGED <<blisting, bidx, binput, bprocessed, bslots, video_counter,
                   video_details, blocals, data_info, info_writes, BOther>>

\* line 157: extract_frames returns, n frames written
BExtractOk ==
    /\ bpc = "extract"
    /\ \E n \in 0..MaxClipFrames :
        bslots' = WriteFrames(bslots, SlotName(video_counter), blisting[bidx], n)
    /\ events' = Append(events, <<bidx, "rasterize">>)
    /\ bpc' = "count"
    /\ UNCHANGED <<blisting, bidx, binput, bprocessed, video_counter,
                   video_details, blocals, data_info, info_writes, BOther>>

\* a variant that swallows the error and goes on to count the frames
BExtractFailIgnored ==
    /\ bpc = "extract"
    /\ \E n \in 0..MaxClipFrames :
        bslots' = WriteFrames(bslots, SlotName(video_counter), blisting[bidx], n)
    /\ events' = Append(events, <<bidx, "rasterize_failed">>)
    /\ bpc' = "count"
    /\ UNCHANGED <<blisting, bidx, binput, bprocessed, video_counter,
                   video_details, blocals, data_info, info_writes, BOther>>

\* line 157: ffmpeg exits non-zero after writing n frames; check=True raises
\* CalledProcessError, which nothing in main catches
BExtractFail ==
    /\ bpc = "extract"
    /\ \E n \in 0..MaxClipFrames :
        bslots' = WriteFrames(bslots, SlotName(video_counter), blisting[bidx], n)
    /\ events' = Append(events, <<bidx, "rasterize_failed">>)
    /\ bpc' = "aborted"
    /\ UNCHANGED <<blisting, bidx, binput, bprocessed, video_counter,
                   video_details, blocals, data_info, info_writes, BOther>>

\* line 161
BCount ==
    /\ bpc = "count"
    /\ blocals' = [blocals EXCEPT
                     !.total_frames = FrameCount(bslots, SlotName(video_counter))]
    /\ events' = Append(events, <<bidx, "count">>)
    /\ bpc' = "labels"
    /\ UNCHANGED <<blisting, bidx, binput, bprocessed, bslots, video_counter,
                   video_details, data_info, info_writes, BOther>>

\* lines 165-171
BLabels ==
    /\ bpc = "labels"
    /\ bslots' = [bslots EXCEPT ![SlotName(video_counter)].labels =
                    <<LabelsJson(Sanitize(blisting[bidx]), blocals.fps,
                                 blocals.total_frames)>>]
    /\ events' = Append(events, <<bidx, "metadata">>)
    /\ bpc' = "move"
    /\ UNCHANGED <<blisting, bidx, binput, bprocessed, video_counter,
                   video_details, blocals, data_info, info_writes, BOther>>

\* line 175: shutil.move(video_path, processed_run_folder)
BMove ==
    /\ bpc = "move"
    /\ binput' = binput \ {blisting[bidx]}
    /\ bprocessed' = bprocessed \cup {blisting[bidx]}
    /\ events' = Append(events, <<bidx, "relocate">>)
    /\ bpc' = "append"
    /\ UNCHANGED <<blisting, bidx, bslots, video_counter, video_details,
                   blocals, data_info, info_writes, BOther>>

\* a variant that forgets line 186
BAppendNoIncrement ==
    /\ bpc = "append"
    /\ video_details' = Append(video_details,
                               [original_file_name |-> blisting[bidx],
                                video_name |-> Sanitize(blisting[bidx]),
                                fps |-> blocals.fps,
                                frames_extracted |-> blocals.total_frames])
    /\ events' = Append(events, <<bidx, "summary">>)
    /\ bidx' = bidx + 1
    /\ bpc' = "scan"
    /\ UNCHANGED <<blisting, binput, bprocessed, bslots, video_counter, blocals,
                   data_info, info_writes, BOther>>

\* lines 179-186, and on to the next file_name
BAppend ==
    /\ bpc = "append"
    /\ video_details' = Append(video_details,
                               [original_file_name |-> blisting[bidx],
                                video_name |-> Sanitize(blisting[bidx]),
                                fps |-> blocals.fps,
                                frames_extracted |-> blocals.total_frames])
    /\ video_counter' = video_counter + 1
    /\ events' = Append(events, <<bidx, "summary">>)
    /\ bidx' = bidx + 1
    /\ bpc' = "scan"
    /\ UNCHANGED <<blisting, binput, bprocessed, bslots, blocals, data_info,
                   info_writes, BOther>>

\* lines 188-208, after the loop (the timestamps of data_info are left out)
BReport ==
    /\ bpc = "scan" /\ bidx > Len(blisting)
    /\ data_info' = <<[videos_processed |-> Len(video_details),
                       details |-> video_details]>>
    /\ info_writes' = info_writes + 1
    /\ bpc' = "done"
    /\ UNCHANGED <<blisting, bidx, binput, bprocessed, bslots, video_counter,
                   video_details, blocals, events, BOther>>

BNext ==
    \/ BSkipFile \/ BEnterClip \/ BProbeOk \/ BProbeFail \/ BExtractOk
    \/ BExtractFail \/ BCount \/ BLabels \/ BMove \/ BAppend \/ BReport

SpecBatch == BInit /\ [][BNext]_vars

(***************************************************************************)
(* SpecSingle: format_mp4_dir.main                                         *)
(***************************************************************************)
MaxElapsed == 1

SingleNames == {<<"a", ".", "m", "p", "4">>,
                <<"A", ".", "w", "e", "b", "m">>,
                <<"a", " ", "b", ".", "m", "p", "4">>,
                <<"n", ".", "t", "x", "t">>}

\* datetime.now().strftime("%Y%m%d-%H%M%S"), the clock counting the seconds
\* since the midnight of one day
Timestamp(c) ==
    <<"2", "0", "2", "5", "0", "3", "0", "1", "-">>
    \o ZeroPad(c \div 3600, 2) \o ZeroPad((c \div 60) % 60, 2) \o ZeroPad(c % 60, 2)

\* lines 126-132: f"{base_name_sanitized}-{timestamp}"
FolderName(file_name, c) == Sanitize(file_name) \o <<"-">> \o Timestamp(c)

SInit ==
    /\ spc = "loop"
    /\ slisting \in Listings(SingleNames)
    /\ sidx = 1
    /\ clock = 0
    /\ sfolders = <<>>
    /\ sdone = <<>>
    /\ LIdle /\ BIdle /\ GIdle /\ CIdle

SOther == <<lvars, bvars, gvars, cvars>>

\* lines 124-125: a file that is no .mp4/.webm is passed over
SSkipFile ==
    /\ spc = "loop" /\ sidx <= Len(slisting)
    /\ ~IsConverterVideo(slisting[sidx])
    /\ sidx' = sidx + 1
    /\ UNCHANGED <<spc, slisting, clock, sfolders, sdone, SOther>>

\* lines 126-166, one iteration that runs to its end: n frames are decoded,
\* and dt seconds pass before the next iteration reads the clock
SConvertClip ==
    /\ spc = "loop" /\ sidx <= Len(slisting)
    /\ IsConverterVideo(slisting[sidx])
    /\ \E out \in ProbeOutcomes, n \in 0..MaxClipFrames, dt \in 0..MaxElapsed :
        LET file == slisting[sidx]
            folder == FolderName(file, clock)
            written == WriteFrames(MakeDirs(sfolders, folder), folder, file, n)
            total_frames == FrameCount(written, folder)
        IN  /\ ~ProbeRaises(out)
            /\ sfolders' = [written EXCEPT ![folder].labels =
                              <<LabelsJson(Sanitize(file), ParseRate(out.raw),
                                           total_frames)>>]
            /\ sdone' = Append(sdone, [file |-> file, folder |-> folder,
                                       clip_frames |-> n,
                                       seq_length |-> total_frames])
            /\ clock' = clock + dt
    /\ sidx' = sidx + 1
    /\ UNCHANGED <<spc, slisting, SOther>>

\* line 146: get_video_fps raises after the folders were made (lines 138-140)
SProbeFail ==
    /\ spc = "loop" /\ sidx <= Len(slisting)
    /\ IsConverterVideo(slisting[sidx])
    /\ \E out \in ProbeOutcomes : ProbeRaises(out)
    /\ sfolders' = MakeDirs(sfolders, FolderName(slisting[sidx], clock))
    /\ spc' = "aborted"
    /\ UNCHANGED <<slisting, sidx, clock, sdone, SOther>>

\* line 150: ffmpeg exits non-zero after writing n frames
SExtractFail ==
    /\ spc = "loop" /\ sidx <= Len(slisting)
    /\ IsConverterVideo(slisting[sidx])
    /\ \E out \in ProbeOutcomes, n \in 0..MaxClipFrames :
        LET folder == FolderName(slisting[sidx], clock) IN
        /\ ~ProbeRaises(out)
        /\ sfolders' = WriteFrames(MakeDirs(sfolders, folder), folder,
                                   slisting[sidx], n)
    /\ spc' = "aborted"
    /\ UNCHANGED <<slisting, sidx, clock, sdone, SOther>>

\* line 168
SFinish ==
    /\ spc = "loop" /\ sidx > Len(slisting)
    /\ spc' = "done"
    /\ UNCHANGED <<slisting, sidx, clock, sfolders, sdone, SOther>>

SNext == SSkipFile \/ SConvertClip \/ SProbeFail \/ SExtractFail \/ SFinish

SpecSingle == SInit /\ [][SNext]_vars

(***************************************************************************)
(* SpecGate: remove_unwanted_scenes                                        *)
(* Confidences are in hundredths, box coordinates in whole pixels.         *)
(***************************************************************************)
CONF_THRESHOLD == 60
MIN_PLAYERS == 4
\* MAX_BBOX_HEIGHT_RATIO = 1/3: its denominator
MAX_BBOX_HEIGHT_RATIO_DEN == 3

MaxDetections == 5

GateNames == {<<"a", ".", "m", "p", "4">>,
              <<"b", ".", "M", "O", "V">>,
              <<"n", ".", "t", "x", "t">>}

\* frame.shape[0] of the frames the model may be shown
FrameHeights == {9, 12}

Box(conf, y1, y2) == [conf |-> conf, xyxy |-> <<1, y1, 3, y2>>]

\* what the model may report for one object
RawBoxes == {Box(59, 1, 5), Box(60, 2, 4), Box(60, 3, 6), Box(95, 5, 7)}

\* results[0].boxes: what the model may report for one frame
RawResults == UNION {[1..n -> RawBoxes] : n \in 0..MaxDetections}

\* get_middle_frame and the model on one clip: (None, None) when the capture
\* does not open or the read fails, otherwise a frame, its height and the
\* boxes the model reports for it
ClipOutcomes ==
    {[frame_read |-> FALSE, frame_height |-> 0, boxes |-> <<>>]}
    \cup [frame_read : {TRUE}, frame_height : FrameHeights, boxes : RawResults]

\* filename.lower().endswith(('.mp4', '.avi', '.mov', '.mkv', '.webm'))
IsGateVideo(filename) ==
    \E ext \in {DotMp4, DotWebm, <<".", "a", "v", "i">>, <<".", "m", "o", "v">>,
                <<".", "m", "k", "v">>} :
        EndsWith(Lower(filename), ext)

\* a variant of run_detection without the confidence test
RECURSIVE RunDetectionUnfiltered(_)
RunDetectionUnfiltered(boxes) ==
    IF boxes = <<>> THEN <<>>
    ELSE <<[bbox |-> Head(boxes).xyxy, conf |-> Head(boxes).conf]>>
         \o RunDetectionUnfiltered(Tail(boxes))

\* run_detection, lines 41-50
RECURSIVE RunDetection(_)
RunDetection(boxes) ==
    IF boxes = <<>> THEN <<>>
    ELSE IF Head(boxes).conf < CONF_THRESHOLD THEN RunDetection(Tail(boxes))
    ELSE <<[bbox |-> Head(boxes).xyxy, conf |-> Head(boxes).conf]>>
         \o RunDetection(Tail(boxes))

\* check_criteria, lines 58-66: "ok" (True), or why it returns False
CheckCriteria(detections, frame_height) ==
    IF Len(detections) < MIN_PLAYERS THEN "too_few"
    ELSE IF \E i \in 1..Len(detections) :
                (detections[i].bbox[4] - detections[i].bbox[2])
                    * MAX_BBOX_HEIGHT_RATIO_DEN >= frame_height
         THEN "too_large"
    ELSE "ok"

\* The accept rule as section 4.6 states it, on what the model reported:
\* at least 4 boxes of confidence >= 0.6, none of them as tall as a third of
\* the frame.  It is recorded beside each verdict, not used to reach it.
AcceptRule(boxes, frame_height) ==
    LET qualifying == {i \in 1..Len(boxes) : boxes[i].conf >= 60} IN
    /\ Cardinality(qualifying) >= 4
    /\ \A i \in qualifying :
         3 * (boxes[i].xyxy[4] - boxes[i].xyxy[2]) < frame_height

\* a variant of process_video that also removes a clip it cannot read
ProcessVideoRemoveUnreadable(frame_read, frame_height, boxes) ==
    IF ~frame_read
    THEN [result |-> FALSE, remove |-> TRUE, report |-> "Unreadable"]
    ELSE IF CheckCriteria(RunDetection(boxes), frame_height) # "ok"
    THEN [result |-> FALSE, remove |-> TRUE, report |-> "Deleted"]
    ELSE [result |-> TRUE, remove |-> FALSE, report |-> "Kept"]

\* process_video, lines 73-82: what it returns, whether it calls os.remove,
\* and what it reports
ProcessVideo(frame_read, frame_height, boxes) ==
    IF ~frame_read
    THEN [result |-> FALSE, remove |-> FALSE, report |-> "Unreadable"]
    ELSE IF CheckCriteria(RunDetection(boxes), frame_height) # "ok"
    THEN [result |-> FALSE, remove |-> TRUE, report |-> "Deleted"]
    ELSE [result |-> TRUE, remove |-> FALSE, report |-> "Kept"]

GInit ==
    /\ gpc = "start"
    /\ gisdir \in BOOLEAN
    /\ glisting \in Listings(GateNames)
    /\ gisdir = FALSE => glisting = <<>>
    /\ gidx = 1
    /\ gdisk = Range(glisting)
    /\ num_processed = 0
    /\ num_deleted = 0
    /\ verdict = [i \in 1..Len(glisting) |-> "Pending"]
    /\ gseen = [i \in 1..Len(glisting) |-> NoFile]
    /\ LIdle /\ BIdle /\ SIdle /\ CIdle

GOther == <<lvars, bvars, svars, cvars>>

\* lines 86-88
GNotADirectory ==
    /\ gpc = "start" /\ ~gisdir
    /\ gpc' = "returned"
    /\ UNCHANGED <<gisdir, glisting, gidx, gdisk, num_processed, num_deleted,
                   verdict, gseen, GOther>>

\* lines 89-92
GLoadModel ==
    /\ gpc = "start" /\ gisdir
    /\ gpc' = "loop"
    /\ UNCHANGED <<gisdir, glisting, gidx, gdisk, num_processed, num_deleted,
                   verdict, gseen, GOther>>

\* lines 94-95
GSkipFile ==
    /\ gpc = "loop" /\ gidx <= Len(glisting)
    /\ ~IsGateVideo(glisting[gidx])
    /\ gidx' = gidx + 1
    /\ UNCHANGED <<gpc, gisdir, glisting, gdisk, num_processed, num_deleted,
                   verdict, gseen, GOther>>

\* lines 96-101: one clip; the capture opens and yields the middle frame or
\* not (get_middle_frame), and the model reports `boxes` for the frame
GProcessClip ==
    /\ gpc = "loop" /\ gidx <= Len(glisting)
    /\ IsGateVideo(glisting[gidx])
    /\ \E clip \in ClipOutcomes :
        LET frame_read == clip.frame_read
            h == clip.frame_height
            boxes == clip.boxes
            r == ProcessVideo(frame_read, h, boxes)
        IN
        /\ num_processed' = num_processed + 1
        /\ gdisk' = IF r.remove THEN gdisk \ {glisting[gidx]} ELSE gdisk
        /\ num_deleted' = IF r.result THEN num_deleted + 1 ELSE num_deleted
        /\ verdict' = [verdict EXCEPT ![gidx] = r.report]
        /\ gseen' = [gseen EXCEPT ![gidx] =
                        <<[frame_read |-> frame_read,
                           acceptable |-> AcceptRule(boxes, h)]>>]
    /\ gidx' = gidx + 1
    /\ UNCHANGED <<gpc, gisdir, glisting, GOther>>

\* lines 103-106
GFinish ==
    /\ gpc = "loop" /\ gidx > Len(glisting)
    /\ gpc' = "done"
    /\ UNCHANGED <<gisdir, glisting, gidx, gdisk, num_processed, num_deleted,
                   verdict, gseen, GOther>>

GNext == GNotADirectory \/ GLoadModel \/ GSkipFile \/ GProcessClip \/ GFinish

SpecGate == GInit /\ [][GNext]_vars

(***************************************************************************)
(* SpecCriteria: run_detection and check_criteria on one frame             *)
(***************************************************************************)
\* run_detection(model, frame), then check_criteria(detections, frame_height)
CInit ==
    /\ cpc = "call"
    /\ cargs \in [frame_height : FrameHeights, boxes : RawResults]
    /\ cout = NoFile
    /\ LIdle /\ BIdle /\ SIdle /\ GIdle

CCheckFrame ==
    /\ cpc = "call"
    /\ LET detections == RunDetection(cargs.boxes) IN
       cout' = <<[detections |-> detections,
                  criteria |-> CheckCriteria(detections, cargs.frame_height)]>>
    /\ cpc' = "returned"
    /\ UNCHANGED <<cargs, lvars, bvars, svars, gvars>>

CNext == CCheckFrame

SpecCriteria == CInit /\ [][CNext]_vars

(***************************************************************************)
(* SpecLabels: create_labels_json on its own                               *)
(***************************************************************************)
LInit ==
    /\ lpc = "call"
    /\ largs \in [video_name : LabelNames, raw_rate : LabelRates,
                  total_frames : 0..MaxFrames]
    /\ lfile = NoFile
    /\ BIdle /\ SIdle /\ GIdle /\ CIdle

\* create_labels_json(video_name, frame_rate, total_frames, output_file)
CreateLabelsJson ==
    /\ lpc = "call"
    /\ lfile' = <<LabelsJson(largs.video_name, ParseRate(largs.raw_rate),
                             largs.total_frames)>>
    /\ lpc' = "written"
    /\ UNCHANGED <<largs, bvars, svars, gvars, cvars>>

LNext == CreateLabelsJson

SpecLabels == LInit /\ [][LNext]_vars

\* the decimal number a string of digits spells, -1 if it is not one
DigitValue(c) ==
    IF \E d \in 1..10 : DigitChars[d] = c
    THEN (CHOOSE d \in 1..10 : DigitChars[d] = c) - 1
    ELSE -1

RECURSIVE ParseDecimal(_)
ParseDecimal(s) ==
    IF Len(s) = 0 THEN -1
    ELSE LET last == DigitValue(s[Len(s)]) IN
         IF last < 0 THEN -1
         ELSE IF Len(s) = 1 THEN last
         ELSE LET rest == ParseDecimal(SubSeq(s, 1, Len(s) - 1)) IN
              IF rest < 0 THEN -1 ELSE rest * 10 + last

\* C5 (as claimed): for R > 0 clip_stop is str(round(F / R * 1000)), rounded
\* to the nearest integer; for R <= 0 it is "0".
C5_ClipStopIsRounded ==
    lpc = "written" =>
        LET R == ParseRate(largs.raw_rate)
            F == largs.total_frames
        IN  lfile[1].info.clip_stop =
                IF FloatPositive(R)
                THEN Str(FloatRound(FloatMul(FloatDiv(FloatFromInt(F), R),
                                             FloatFromInt(1000))))
                ELSE <<"0">>

\* C6: the record has exactly N image descriptors, seq_length = N; the i-th
\* has a 10-character file_name whose first six characters are the decimal
\* digits of i followed by ".jpg", and a 9-digit image_id spelling i, so the
\* indices run 1, 2, ..., N; annotations and categories are empty.
C6_ImagesMatchSeqLength ==
    lpc = "written" =>
        LET N == largs.total_frames
            imgs == lfile[1].images
        IN  /\ Len(imgs) = N
            /\ lfile[1].info.seq_length = N
            /\ DOMAIN imgs = 1..N
            /\ \A i \in 1..N :
                /\ Len(imgs[i].file_name) = 10
                /\ ParseDecimal(SubSeq(imgs[i].file_name, 1, 6)) = i
                /\ SubSeq(imgs[i].file_name, 7, 10) = <<".", "j", "p", "g">>
                /\ Len(imgs[i].image_id) = 9
                /\ ParseDecimal(imgs[i].image_id) = i
            /\ \A i \in 1..(N - 1) :
                 ParseDecimal(imgs[i + 1].image_id)
                    = ParseDecimal(imgs[i].image_id) + 1
            /\ lfile[1].annotations = <<>>
            /\ lfile[1].categories = <<>>

\* C6 witness: a written record of a sequence with two-digit frame indices
C6_Witness ==
    /\ lpc = "written"
    /\ largs.total_frames >= 10
    /\ Len(lfile[1].images) = largs.total_frames
    /\ lfile[1].images[10].file_name = <<"0","0","0","0","1","0",".","j","p","g">>


(***************************************************************************)
(* Properties of format_to_soccernet.main                                  *)
(***************************************************************************)
BTerminated == bpc \in {"done", "aborted"}

\* the steps logged for the file at index i of the listing, in order
RECURSIVE StepsOf(_, _)
StepsOf(log, i) ==
    IF log = <<>> THEN <<>>
    ELSE IF Head(log)[1] = i THEN <<Head(log)[2]>> \o StepsOf(Tail(log), i)
    ELSE StepsOf(Tail(log), i)

IsPrefix(s, t) == Len(s) <= Len(t) /\ SubSeq(t, 1, Len(s)) = s

BAttempted(i) == StepsOf(events, i) # <<>>

BFailed(i) ==
    \E k \in 1..Len(events) :
        events[k][1] = i /\ events[k][2] \in {"probe_failed", "rasterize_failed"}

\* C1 (as claimed): when main has ended, every clip of the listing has been
\* attempted, whether or not an earlier clip failed to probe or rasterize.
C1_LaterClipsStillAttempted ==
    BTerminated =>
        \A i \in 1..Len(blisting) :
            IsConverterVideo(blisting[i]) => BAttempted(i)

\* C2 (as claimed): when main has ended, data_info.json has been written
\* exactly once, whatever the outcome of the per-clip steps, and it is never
\* written before every clip has been attempted.
C2_BatchRecordWrittenOnce ==
    /\ BTerminated => (info_writes = 1 /\ data_info # NoFile)
    /\ data_info # NoFile =>
        \A i \in 1..Len(blisting) :
            IsConverterVideo(blisting[i]) => BAttempted(i)

FullOrder == <<"probe", "rasterize", "count", "metadata", "relocate", "summary">>

\* C7: the steps of every clip occur in the order probe, rasterize, count,
\* write metadata, relocate, append summary; after a failed probe or
\* rasterization nothing more is done for the clip: its slot holds no
\* metadata file, its source is still in the input directory and not in the
\* processed area, no summary entry names it, and it was rasterized at most
\* once.
C7_StepOrderAndSkipAfterFailure ==
    \A i \in 1..Len(blisting) :
        LET steps == StepsOf(events, i) IN
        /\ \/ IsPrefix(steps, FullOrder)
           \/ steps = <<"probe_failed">>
           \/ steps = <<"probe", "rasterize_failed">>
        /\ BFailed(i) =>
            /\ \A s \in DOMAIN bslots :
                 (blisting[i] \in bslots[s].clips \/ s = SlotName(video_counter))
                    => bslots[s].labels = NoFile
            /\ blisting[i] \in binput
            /\ blisting[i] \notin bprocessed
            /\ \A k \in 1..Len(video_details) :
                 video_details[k].original_file_name # blisting[i]
            /\ data_info = NoFile
                 \/ \A k \in 1..Len(data_info[1].details) :
                      data_info[1].details[k].original_file_name # blisting[i]
            /\ Cardinality({k \in 1..Len(events) :
                              events[k][1] = i
                              /\ events[k][2] \in {"rasterize", "rasterize_failed"}})
                 <= 1

\* C7 witness: the second clip of a run failed to rasterize after the first
\* was converted, relocated and summarised
C7_Witness ==
    /\ bpc = "aborted"
    /\ Len(video_details) = 1
    /\ \E i \in 1..Len(blisting) :
        /\ StepsOf(events, i) = <<"probe", "rasterize_failed">>
        /\ blisting[i] \in binput
    /\ \E j \in 1..Len(blisting) : StepsOf(events, j) = FullOrder

\* the converter's videos of the listing, in listing order
RECURSIVE BatchVideos(_)
BatchVideos(l) ==
    IF l = <<>> THEN <<>>
    ELSE IF IsConverterVideo(Head(l)) THEN <<Head(l)>> \o BatchVideos(Tail(l))
    ELSE BatchVideos(Tail(l))

\* the ordinal a slot directory name "video<k>" spells, -1 if it spells none
SlotOrdinal(name) ==
    IF Len(name) > 5 /\ SubSeq(name, 1, 5) = <<"v", "i", "d", "e", "o">>
    THEN ParseDecimal(SubSeq(name, 6, Len(name)))
    ELSE -1

\* C8: the k-th clip processed is stored under slot video{k} whatever its
\* file name, no slot holds frames of two clips, and once the run has ended
\* normally videos_processed = number of details = number of slots = number
\* of relocated sources, with details[k] describing the clip in video{k}.
C8_OrdinalSlots ==
    /\ \A s \in DOMAIN bslots :
        /\ SlotOrdinal(s) \in 1..video_counter
        /\ Cardinality(bslots[s].clips) <= 1
        /\ \A c \in bslots[s].clips :
             c = BatchVideos(blisting)[SlotOrdinal(s)]
    /\ \A k \in 1..Len(video_details) :
        \E s \in DOMAIN bslots :
            /\ SlotOrdinal(s) = k
            /\ bslots[s].clips = {video_details[k].original_file_name}
            /\ bslots[s].labels # NoFile
            /\ bslots[s].labels[1].info.name = video_details[k].video_name
            /\ bslots[s].labels[1].info.seq_length
                 = video_details[k].frames_extracted
            /\ Cardinality(bslots[s].frames) = video_details[k].frames_extracted
    /\ bpc = "done" =>
        /\ data_info[1].details = video_details
        /\ data_info[1].videos_processed = Len(data_info[1].details)
        /\ data_info[1].videos_processed = Cardinality(DOMAIN bslots)
        /\ data_info[1].videos_processed = Cardinality(bprocessed)
        /\ data_info[1].videos_processed = Len(BatchVideos(blisting))

\* C8 witness: a finished run of three clips whose first slot holds the clip
\* with the upper-case name and whose listing also held a file that is no clip
C8_Witness ==
    /\ bpc = "done"
    /\ data_info[1].videos_processed = 3
    /\ Len(blisting) = 4
    /\ data_info[1].details[1].original_file_name
         = <<"B", " ", "b", ".", "W", "E", "B", "M">>
    /\ data_info[1].details[1].video_name = <<"b", "-", "b">>
    /\ bslots[<<"v", "i", "d", "e", "o", "3">>].clips
         = {data_info[1].details[3].original_file_name}


(***************************************************************************)
(* Properties of format_mp4_dir.main                                       *)
(***************************************************************************)
\* C10 (as claimed): two distinct clips of one input directory are never
\* rasterized into the same image directory, and the seq_length written for
\* a clip counts the frames of that clip only.
C10_DistinctImageDirs ==
    /\ \A i, j \in 1..Len(sdone) :
        i # j => sdone[i].folder # sdone[j].folder
    /\ \A f \in DOMAIN sfolders : Cardinality(sfolders[f].clips) <= 1
    /\ \A i \in 1..Len(sdone) : sdone[i].seq_length = sdone[i].clip_frames

GateTerminal == {"Unreadable", "Kept", "Deleted"}

C4_State ==
    \A i \in 1..Len(glisting) :
        /\ verdict[i] \in GateTerminal \cup {"Pending"}
        /\ verdict[i] = "Pending" <=> (i >= gidx \/ ~IsGateVideo(glisting[i]))
        /\ verdict[i] = "Pending" => glisting[i] \in gdisk
        /\ verdict[i] # "Pending" =>
            LET seen == gseen[i][1] IN
            /\ glisting[i] \notin gdisk <=> (seen.frame_read /\ ~seen.acceptable)
            /\ verdict[i] = "Deleted" <=> (seen.frame_read /\ ~seen.acceptable)
            /\ verdict[i] = "Kept" <=> (seen.frame_read /\ seen.acceptable)
            /\ verdict[i] = "Unreadable" <=> ~seen.frame_read

\* C4: the source file of a clip is removed exactly when its middle frame
\* was read and the accept rule rejected it; an unreadable clip and a kept
\* clip stay on disk; a clip goes from Pending to exactly one of Unreadable,
\* Kept, Deleted in the one step that processes it and stays there.
C4_RemovedIffReadAndRejected ==
    /\ []C4_State
    /\ [][\A i \in 1..Len(glisting) :
            /\ verdict[i] # "Pending" =>
                /\ verdict'[i] = verdict[i]
                /\ gseen'[i] = gseen[i]
                /\ (glisting[i] \in gdisk) <=> (glisting[i] \in gdisk')
            /\ (verdict[i] = "Pending" /\ verdict'[i] # "Pending") =>
                (i = gidx /\ verdict'[i] \in GateTerminal)]_vars

\* C4 witness: one clip could not be read and is still on disk, another was
\* read and rejected and is gone
C4_Witness ==
    \E i, j \in 1..Len(glisting) :
        /\ verdict[i] = "Unreadable" /\ glisting[i] \in gdisk
        /\ verdict[j] = "Deleted" /\ glisting[j] \notin gdisk

\* C9 (as claimed): when main has gone through the folder, num_processed is
\* the number of files with a supported extension and num_deleted the number
\* of clips whose file was removed.
C9_CountersMatchDisk ==
    gpc = "done" =>
        /\ num_processed
             = Cardinality({i \in 1..Len(glisting) : IsGateVideo(glisting[i])})
        /\ num_deleted = Cardinality(Range(glisting) \ gdisk)

====
